---- MODULE Spec2Model ----
(***************************************************************************)
(* A model of griffine: rectangular grids, their cells, the two tiling     *)
(* operations (tile_via, tile_into), tile indexing, linear indices and the *)
(* propagation of affine transforms to tiled grids.                        *)
(*                                                                         *)
(* The library is a set of pure constructors and methods over immutable    *)
(* objects.  The state is the object a caller currently holds (cur) and    *)
(* the record of the last call made (last): its receiver, its arguments    *)
(* and what it returned or raised.  A call that returns makes its result   *)
(* the held object; a call that raises leaves the held object alone.       *)
(*                                                                         *)
(* Objects are records tagged by the name of their class.  Objects are     *)
(* never mutated after construction, so a reference to an object is        *)
(* modelled by the object's value.                                         *)
(*                                                                         *)
(* Affine coefficients are rationals n/d in lowest terms; Python's float   *)
(* `*` and `/` are modelled by exact rational arithmetic.  math.ceil(x/y)  *)
(* is modelled on integers, which is what it computes while x/y is exact   *)
(* enough in floating point (true far beyond the bounds used here).        *)
(***************************************************************************)
EXTENDS Integers, Sequences, FiniteSets, TLC

VARIABLES cur, last

vars == <<cur, last>>

(* ------------------------------ bounds -------------------------------- *)

\* largest number of rows of a grid handed to a constructor
MaxRows == 4

\* largest number of columns of a grid handed to a constructor
MaxCols == 3

\* rows/cols handed to Grid(...): include 0 and a negative value
CtorRows == (-1)..MaxRows

CtorCols == (-1)..MaxCols

\* indices handed to __getitem__: include rows, cols, -(rows + 1), -(cols + 1)
RowIndexRange == (-(MaxRows + 1))..MaxRows

ColIndexRange == (-(MaxCols + 1))..MaxCols

(* ------------------------- values and errors -------------------------- *)

None == [kind |-> "None"]

Raise(type) == [kind |-> "error", type |-> type]

IsError(x) == x.kind = "error"

(* --------------------------- affine.Affine ---------------------------- *)

RECURSIVE Gcd(_, _)
Gcd(x, y) == IF y = 0 THEN x ELSE Gcd(y, x % y)

Abs(x) == IF x < 0 THEN -x ELSE x

\* the number n/d, d > 0, in lowest terms
Rat(n, d) ==
    LET g == Gcd(Abs(n), d)
    IN  [n |-> n \div g, d |-> d \div g]

\* coefficient * int
RatMul(x, k) == Rat(x.n * k, x.d)

\* coefficient / int, int >= 1
RatDiv(x, k) == Rat(x.n, x.d * k)

Affine(a, b, c, d, e, f) ==
    [a |-> a, b |-> b, c |-> c, d |-> d, e |-> e, f |-> f]

\* the transforms a caller attaches: integer coefficients, as in the tests
Transforms ==
    { Affine(Rat(a, 1), Rat(0, 1), Rat(200, 1), Rat(1, 1), Rat(e, 1), Rat(610, 1)) :
        a \in {10}, e \in {-10} }

(* ---------------------------- constructors ---------------------------- *)

\* CellType.__init__: the error it raises, or "ok"
CellType_init(row, col) ==
    IF row < 0 THEN "InvalidCoordinateError"
    ELSE IF col < 0 THEN "InvalidCoordinateError"
    ELSE "ok"

\* GridType.__init__ with its lower limits off by one: zero is let through
GridType_init_nonneg(rows, cols) ==
    IF rows < 0 THEN "InvalidGridError"
    ELSE IF cols < 0 THEN "InvalidGridError"
    ELSE "ok"

\* GridType.__init__: the error it raises, or "ok"
GridType_init(rows, cols) ==
    IF rows < 1 THEN "InvalidGridError"
    ELSE IF cols < 1 THEN "InvalidGridError"
    ELSE "ok"

\* TiledType.__init__: super().__init__ (GridType) runs first
TiledType_init(rows, cols, tile_rows, tile_cols) ==
    IF GridType_init(rows, cols) # "ok" THEN GridType_init(rows, cols)
    ELSE IF tile_rows < 1 THEN "InvalidGridError"
    ELSE IF tile_cols < 1 THEN "InvalidGridError"
    ELSE "ok"

Grid(rows, cols) ==
    IF GridType_init(rows, cols) # "ok" THEN Raise(GridType_init(rows, cols))
    ELSE [kind |-> "Grid", rows |-> rows, cols |-> cols]

AffineGrid(rows, cols, transform) ==
    IF GridType_init(rows, cols) # "ok" THEN Raise(GridType_init(rows, cols))
    ELSE [kind |-> "AffineGrid", rows |-> rows, cols |-> cols,
          transform |-> transform]

TiledGrid(rows, cols, tile_rows, tile_cols, base_grid) ==
    IF TiledType_init(rows, cols, tile_rows, tile_cols) # "ok"
    THEN Raise(TiledType_init(rows, cols, tile_rows, tile_cols))
    ELSE [kind |-> "TiledGrid", rows |-> rows, cols |-> cols,
          tile_rows |-> tile_rows, tile_cols |-> tile_cols,
          base_grid |-> base_grid]

TiledAffineGrid(rows, cols, tile_rows, tile_cols, base_grid, transform) ==
    IF TiledType_init(rows, cols, tile_rows, tile_cols) # "ok"
    THEN Raise(TiledType_init(rows, cols, tile_rows, tile_cols))
    ELSE [kind |-> "TiledAffineGrid", rows |-> rows, cols |-> cols,
          tile_rows |-> tile_rows, tile_cols |-> tile_cols,
          base_grid |-> base_grid, transform |-> transform]

GridCell(row, col, grid) ==
    IF CellType_init(row, col) # "ok" THEN Raise(CellType_init(row, col))
    ELSE [kind |-> "GridCell", row |-> row, col |-> col, grid |-> grid]

\* GridTile.__init__: GridType.__init__ runs before CellType.__init__ (MRO)
GridTile(row, col, rows, cols, grid) ==
    IF GridType_init(rows, cols) # "ok" THEN Raise(GridType_init(rows, cols))
    ELSE IF CellType_init(row, col) # "ok" THEN Raise(CellType_init(row, col))
    ELSE [kind |-> "GridTile", row |-> row, col |-> col,
          rows |-> rows, cols |-> cols, grid |-> grid]

\* GridType.size
size(g) == <<g.rows, g.cols>>

\* TiledType.tile_size
tile_size(g) == <<g.tile_rows, g.tile_cols>>

(* ------------------------------ indexing ------------------------------ *)

\* the wraparound with `>` for `>=`: index 0 is wrapped as well
WrapIndex_positive(i, n) == IF i > 0 THEN i ELSE i + n

\* negative-index wraparound: coords[i] if coords[i] >= 0 else coords[i] + n
WrapIndex(i, n) == IF i >= 0 THEN i ELSE i + n

\* GridType.__getitem__ returning, for a tile, coordinates offset by the
\* tile's position in the base grid
GridType_getitem_absolute(g, r, c) ==
    LET row == WrapIndex(r, g.rows)
        col == WrapIndex(c, g.cols)
    IN  IF row < 0 \/ row >= g.rows THEN Raise("OutOfBoundsError")
        ELSE IF col < 0 \/ col >= g.cols THEN Raise("OutOfBoundsError")
        ELSE IF g.kind = "GridTile"
             THEN GridCell(g.row * g.grid.tile_rows + row,
                           g.col * g.grid.tile_cols + col, g)
             ELSE GridCell(row, col, g)

\* GridType.__getitem__ (grids, and tiles: GridTile inherits it from
\* GridType, which precedes GridCell in its MRO)
GridType_getitem(g, r, c) ==
    LET row == WrapIndex(r, g.rows)
        col == WrapIndex(c, g.cols)
    IN  IF row < 0 \/ row >= g.rows THEN Raise("OutOfBoundsError")
        ELSE IF col < 0 \/ col >= g.cols THEN Raise("OutOfBoundsError")
        ELSE GridCell(row, col, g)

\* TiledType.__getitem__
TiledType_getitem(g, r, c) ==
    LET row == WrapIndex(r, g.rows)
        col == WrapIndex(c, g.cols)
    IN  IF row < 0 \/ row >= g.rows THEN Raise("OutOfBoundsError")
        ELSE IF col < 0 \/ col >= g.cols THEN Raise("OutOfBoundsError")
        ELSE GridTile(row, col, g.tile_rows, g.tile_cols, g)

\* linear_index with the row multiplied by the number of rows
linear_index_by_rows(cell) == (cell.grid.rows * cell.row) + cell.col

\* GridCell.linear_index
linear_index(cell) == (cell.grid.cols * cell.row) + cell.col

(* ------------------------------- tiling ------------------------------- *)

\* math.ceil(x / y) for integers x >= 0, y >= 1
math_ceil(x, y) == IF x % y = 0 THEN x \div y ELSE (x \div y) + 1

\* can_tile_into as an exact-divisibility test
can_tile_into_divides(grid_size, tile_count) == grid_size % tile_count = 0

\* math.ceil(grid_size / math.ceil(grid_size / tile_count))
can_tile_into(grid_size, tile_count) ==
    tile_count = math_ceil(grid_size, math_ceil(grid_size, tile_count))

\* Grid._tiled
Grid_tiled(g, grid_size, tile_sz) ==
    TiledGrid(grid_size[1], grid_size[2], tile_sz[1], tile_sz[2], g)

\* AffineGrid._tiled (tile_size[0] is the tile's rows, tile_size[1] its cols)
AffineGrid_tiled(g, grid_size, tile_sz) ==
    TiledAffineGrid(grid_size[1], grid_size[2], tile_sz[1], tile_sz[2], g,
                    Affine(RatMul(g.transform.a, tile_sz[1]),
                           g.transform.b,
                           g.transform.c,
                           g.transform.d,
                           RatMul(g.transform.e, tile_sz[2]),
                           g.transform.f))

\* self._tiled(...): dispatch on the class of the receiver
tiled(g, grid_size, tile_sz) ==
    IF g.kind = "AffineGrid" THEN AffineGrid_tiled(g, grid_size, tile_sz)
    ELSE Grid_tiled(g, grid_size, tile_sz)

\* tile_via checking the columns only
tile_via_cols_only(g, grid) ==
    IF g.cols < grid.cols
    THEN Raise("InvalidTilingError")
    ELSE LET rows == math_ceil(g.rows, grid.rows)
             cols == math_ceil(g.cols, grid.cols)
         IN  tiled(g, <<rows, cols>>, size(grid))

\* tile_via counting the tiles with a floor division
tile_via_floor(g, grid) ==
    IF g.cols < grid.cols \/ g.rows < grid.rows
    THEN Raise("InvalidTilingError")
    ELSE LET rows == g.rows \div grid.rows
             cols == g.cols \div grid.cols
         IN  tiled(g, <<rows, cols>>, size(grid))

\* TileableType.tile_via
tile_via(g, grid) ==
    IF g.cols < grid.cols \/ g.rows < grid.rows
    THEN Raise("InvalidTilingError")
    ELSE LET rows == math_ceil(g.rows, grid.rows)
             cols == math_ceil(g.cols, grid.cols)
         IN  tiled(g, <<rows, cols>>, size(grid))

\* tile_into passing the tile size and the tile-grid size in the wrong order
tile_into_swapped(g, grid) ==
    IF ~(can_tile_into(g.rows, grid.rows) /\ can_tile_into(g.cols, grid.cols))
    THEN Raise("InvalidTilingError")
    ELSE LET tile_rows == math_ceil(g.rows, grid.rows)
             tile_cols == math_ceil(g.cols, grid.cols)
         IN  tiled(g, <<tile_rows, tile_cols>>, size(grid))

\* TileableType.tile_into
tile_into(g, grid) ==
    IF ~(can_tile_into(g.rows, grid.rows) /\ can_tile_into(g.cols, grid.cols))
    THEN Raise("InvalidTilingError")
    ELSE LET tile_rows == math_ceil(g.rows, grid.rows)
             tile_cols == math_ceil(g.cols, grid.cols)
         IN  tiled(g, size(grid), <<tile_rows, tile_cols>>)

(* ----------------------------- transforms ----------------------------- *)

\* Grid.add_transform
Grid_add_transform(g, transform) == AffineGrid(g.rows, g.cols, transform)

\* TiledGrid.add_transform
TiledGrid_add_transform(g, transform) ==
    LET base == Grid_add_transform(g.base_grid,
                    Affine(RatDiv(transform.a, g.tile_cols),
                           transform.b,
                           transform.c,
                           transform.d,
                           RatDiv(transform.e, g.tile_rows),
                           transform.f))
    IN  TiledAffineGrid(g.rows, g.cols, g.tile_rows, g.tile_cols, base, transform)

(* ------------------------------ the calls ----------------------------- *)

\* the grids a caller passes as the pattern of a tiling
PatternGrids == { Grid(r, c) : r \in 1..MaxRows, c \in 1..MaxCols }

Tileable == {"Grid", "AffineGrid"}

TiledKinds == {"TiledGrid", "TiledAffineGrid"}

Indexable == Tileable \cup TiledKinds \cup {"GridTile"}

\* the effect of a call on the state: the result replaces the held object
\* unless the call raised
Call(op, args, result) ==
    /\ last' = [op |-> op, self |-> cur, args |-> args, result |-> result]
    /\ cur' = IF IsError(result) THEN cur ELSE result

Init ==
    /\ cur = None
    /\ last = [op |-> "none", self |-> None, args |-> <<>>, result |-> None]

\* Grid(rows, cols): the root of a chain of calls; the constructor has no
\* receiver, and is called again when it raised
NewGrid ==
    /\ cur = None
    /\ \E rows \in CtorRows, cols \in CtorCols :
        Call("Grid", <<rows, cols>>, Grid(rows, cols))

\* cur.add_transform(transform)
AddTransform ==
    /\ cur.kind \in {"Grid", "TiledGrid"}
    /\ \E t \in Transforms :
        Call("add_transform", <<t>>,
             IF cur.kind = "Grid" THEN Grid_add_transform(cur, t)
             ELSE TiledGrid_add_transform(cur, t))

\* cur.tile_via(grid)
TileVia ==
    /\ cur.kind \in Tileable
    /\ \E grid \in PatternGrids :
        Call("tile_via", <<grid>>, tile_via(cur, grid))

\* cur.tile_into(grid)
TileInto ==
    /\ cur.kind \in Tileable
    /\ \E grid \in PatternGrids :
        Call("tile_into", <<grid>>, tile_into(cur, grid))

\* cur[r, c]
GetItem ==
    /\ cur.kind \in Indexable
    /\ \E r \in RowIndexRange, c \in ColIndexRange :
        Call("getitem", <<r, c>>,
             IF cur.kind \in TiledKinds THEN TiledType_getitem(cur, r, c)
             ELSE GridType_getitem(cur, r, c))

\* cur.linear_index: a property read, the held object stays the cell
LinearIndex ==
    /\ cur.kind \in {"GridCell", "GridTile"}
    /\ last' = [op |-> "linear_index", self |-> cur, args |-> <<>>,
                result |-> [kind |-> "int", value |-> linear_index(cur)]]
    /\ UNCHANGED cur

Next ==
    \/ NewGrid
    \/ AddTransform
    \/ TileVia
    \/ TileInto
    \/ GetItem
    \/ LinearIndex

Spec == Init /\ [][Next]_vars

(* ------------------- reference notions for the claims ----------------- *)

\* ceil(n / k) by its defining inequality, for n >= 1 and k >= 1
Ceiling(n, k) == CHOOSE q \in 1..n : q * k >= n /\ (q - 1) * k < n

\* the number of consecutive non-empty groups obtained by cutting n cells
\* into groups of t cells, counted one group at a time
RECURSIVE Groups(_, _)
Groups(n, t) == IF n <= 0 THEN 0 ELSE 1 + Groups(n - t, t)

Min(x, y) == IF x <= y THEN x ELSE y

\* the row-major flattening of a rows x cols grid, built row after row
RECURSIVE FlattenFrom(_, _, _)
FlattenFrom(r, rows, cols) ==
    IF r >= rows THEN <<>>
    ELSE [j \in 1..cols |-> <<r, j - 1>>] \o FlattenFrom(r + 1, rows, cols)

Flatten(g) == FlattenFrom(0, g.rows, g.cols)

Returned == ~IsError(last.result)

\* the index a call of __getitem__ was given, after wraparound against the
\* receiver's own rows and cols
ResolvedRow == IF last.args[1] >= 0 THEN last.args[1] ELSE last.args[1] + last.self.rows

ResolvedCol == IF last.args[2] >= 0 THEN last.args[2] ELSE last.args[2] + last.self.cols

ResolvedInside ==
    /\ 0 <= ResolvedRow /\ ResolvedRow < last.self.rows
    /\ 0 <= ResolvedCol /\ ResolvedCol < last.self.cols

(* ------------------------------- claims ------------------------------- *)

\* C1: tile_into succeeds iff kr = ceil(rows / ceil(rows / kr)) and
\* kc = ceil(cols / ceil(cols / kc)), and otherwise raises
\* InvalidTilingError; on success the tiled grid has dimensions (kr, kc),
\* tile size (ceil(rows / kr), ceil(cols / kc)) and the receiver as base grid.
C1_TileIntoContract ==
    last.op = "tile_into" =>
        LET n  == last.self.rows
            m  == last.self.cols
            kr == last.args[1].rows
            kc == last.args[1].cols
            balanced == /\ kr = Ceiling(n, Ceiling(n, kr))
                        /\ kc = Ceiling(m, Ceiling(m, kc))
        IN  /\ Returned <=> balanced
            /\ ~Returned => last.result.type = "InvalidTilingError"
            /\ Returned =>
                /\ size(last.result) = <<kr, kc>>
                /\ tile_size(last.result) = <<Ceiling(n, kr), Ceiling(m, kc)>>
                /\ last.result.base_grid = last.self

\* C1 witness: a 4-row grid tiled into 2 x 1 tiles of 2 rows each
C1_Witness ==
    /\ last.op = "tile_into" /\ Returned
    /\ last.self.rows = 4 /\ last.args[1].rows = 2
    /\ last.result.tile_rows = 2

\* C2 as stated: whenever tile_into succeeds every group, the last included,
\* has size ceil(n / k), so that k * ceil(n / k) = n on each axis.
C2_EvenPartition ==
    (last.op = "tile_into" /\ Returned) =>
        /\ last.args[1].rows * Ceiling(last.self.rows, last.args[1].rows) = last.self.rows
        /\ last.args[1].cols * Ceiling(last.self.cols, last.args[1].cols) = last.self.cols

\* C2 amended: tile_into succeeds exactly when, on each axis, cutting n into
\* consecutive groups of ceil(n / k) cells gives exactly k non-empty groups;
\* the last group then has n - (k - 1) * ceil(n / k) cells, between 1 and
\* ceil(n / k), so it may be smaller than the others.
C2_GroupCount ==
    last.op = "tile_into" =>
        LET n  == last.self.rows
            m  == last.self.cols
            kr == last.args[1].rows
            kc == last.args[1].cols
            tr == Ceiling(n, kr)
            tc == Ceiling(m, kc)
        IN  /\ Returned <=> (Groups(n, tr) = kr /\ Groups(m, tc) = kc)
            /\ Returned =>
                /\ n - (kr - 1) * tr \in 1..tr
                /\ m - (kc - 1) * tc \in 1..tc

\* C2 witness: 3 rows tiled into 2 tiles: groups of 2 and 1 rows
C2_Witness ==
    /\ last.op = "tile_into" /\ Returned
    /\ last.self.rows = 3 /\ last.args[1].rows = 2

\* C3: tile_via raises InvalidTilingError iff rows < pr or cols < pc;
\* otherwise the tiled grid has dimensions (ceil(rows / pr), ceil(cols / pc)),
\* tile size (pr, pc) and the receiver as base grid.
C3_TileViaContract ==
    last.op = "tile_via" =>
        LET n  == last.self.rows
            m  == last.self.cols
            pr == last.args[1].rows
            pc == last.args[1].cols
        IN  /\ ~Returned <=> (n < pr \/ m < pc)
            /\ ~Returned => last.result.type = "InvalidTilingError"
            /\ Returned =>
                /\ size(last.result) = <<Ceiling(n, pr), Ceiling(m, pc)>>
                /\ tile_size(last.result) = <<pr, pc>>
                /\ last.result.base_grid = last.self

\* C3 witness: 3 rows tiled via tiles of 2 rows: 2 rows of tiles
C3_Witness ==
    /\ last.op = "tile_via" /\ Returned
    /\ last.self.rows = 3 /\ last.args[1].rows = 2
    /\ last.result.rows = 2

\* C4: a tile returned by indexing a tiled grid has
\* rows = min(tile_rows, base_rows - tile_row * tile_rows) and
\* cols = min(tile_cols, base_cols - tile_col * tile_cols).
C4_TileSize ==
    (last.op = "getitem" /\ last.self.kind \in TiledKinds /\ Returned) =>
        /\ last.result.rows =
             Min(last.self.tile_rows,
                 last.self.base_grid.rows - last.result.row * last.self.tile_rows)
        /\ last.result.cols =
             Min(last.self.tile_cols,
                 last.self.base_grid.cols - last.result.col * last.self.tile_cols)

\* C5 as stated: indexing a tile with an index valid for it returns a cell
\* whose coordinates are absolute in the base grid: row = tile_row * tile_rows
\* + r' and col = tile_col * tile_cols + c', with the tile as its grid.
C5_AbsoluteCoordinates ==
    (last.op = "getitem" /\ last.self.kind = "GridTile" /\ ResolvedInside) =>
        /\ Returned
        /\ last.result.row = last.self.row * last.self.grid.tile_rows + ResolvedRow
        /\ last.result.col = last.self.col * last.self.grid.tile_cols + ResolvedCol
        /\ last.result.grid = last.self

\* C5 amended: indexing a tile with an index valid for it resolves the index
\* with wraparound against the tile's own rows/cols and returns a cell whose
\* coordinates are relative to the tile: row = r' and col = c', within the
\* tile's rows and cols, with the tile as its grid.
C5_TileRelativeCoordinates ==
    (last.op = "getitem" /\ last.self.kind = "GridTile" /\ ResolvedInside) =>
        /\ Returned
        /\ last.result.row = ResolvedRow
        /\ last.result.col = ResolvedCol
        /\ last.result.row \in 0..(last.self.rows - 1)
        /\ last.result.col \in 0..(last.self.cols - 1)
        /\ last.result.grid = last.self

\* C5 witness: a negative row index into a tile that is not in the first
\* row of tiles
C5_Witness ==
    /\ last.op = "getitem" /\ last.self.kind = "GridTile" /\ Returned
    /\ last.self.row >= 1
    /\ last.args[1] < 0
    /\ last.result.row = last.self.rows + last.args[1]

\* C6: in every transform-carrying tiled grid the tile-level transform has
\* a = base a * tile_cols and e = base e * tile_rows, and b, c, d, f equal to
\* the base grid's.
C6_TransformConsistency ==
    cur.kind = "TiledAffineGrid" =>
        /\ cur.transform.a = RatMul(cur.base_grid.transform.a, cur.tile_cols)
        /\ cur.transform.e = RatMul(cur.base_grid.transform.e, cur.tile_rows)
        /\ cur.transform.b = cur.base_grid.transform.b
        /\ cur.transform.c = cur.base_grid.transform.c
        /\ cur.transform.d = cur.base_grid.transform.d
        /\ cur.transform.f = cur.base_grid.transform.f

\* C7: indexing a grid resolves negative indices by adding the dimension,
\* raises OutOfBoundsError iff the resolved row or column is outside the
\* grid, and otherwise returns the cell at the resolved coordinates whose
\* grid is the indexed grid; so -k gives the same cell as rows - k.
C7_Indexing ==
    (last.op = "getitem" /\ last.self.kind # "GridTile") =>
        /\ ~Returned <=> ~ResolvedInside
        /\ ~Returned => last.result.type = "OutOfBoundsError"
        /\ Returned =>
            /\ last.result.row = ResolvedRow
            /\ last.result.col = ResolvedCol
            /\ last.result.grid = last.self
            /\ last.args[1] < 0 => last.result.row = last.self.rows + last.args[1]
            /\ last.args[2] < 0 => last.result.col = last.self.cols + last.args[2]

\* C7 witness: index 0 on one axis and a negative index on the other
C7_Witness ==
    /\ last.op = "getitem" /\ last.self.kind = "Grid" /\ Returned
    /\ last.args[1] = -1 /\ last.args[2] = 0
    /\ last.result.row = last.self.rows - 1

\* C8: the linear index of a cell is row * cols + col, which is the cell's
\* position in the row-major flattening of its grid; over all cells of a
\* grid the linear indices are exactly 0 .. rows * cols - 1, each taken once.
C8_LinearIndex ==
    /\ last.op = "linear_index" =>
        /\ last.result.value = last.self.row * last.self.grid.cols + last.self.col
        /\ Flatten(last.self.grid)[last.result.value + 1] = <<last.self.row, last.self.col>>
    /\ cur.kind \in Tileable =>
        LET cells == { GridType_getitem(cur, r, c) :
                         r \in 0..(cur.rows - 1), c \in 0..(cur.cols - 1) }
        IN  /\ { linear_index(x) : x \in cells } = 0..(cur.rows * cur.cols - 1)
            /\ \A x \in cells, y \in cells :
                   linear_index(x) = linear_index(y) => x = y

\* C8 witness: the linear index of a cell off the first row and column of a
\* grid that is not square
C8_Witness ==
    /\ last.op = "linear_index"
    /\ last.self.grid.kind = "Grid"
    /\ last.self.grid.rows # last.self.grid.cols
    /\ last.self.row >= 1 /\ last.self.col >= 1

\* C9: Grid(rows, cols) succeeds iff rows >= 1 and cols >= 1, and then its
\* size is (rows, cols); otherwise it raises InvalidGridError and no grid
\* is produced.
C9_GridConstructor ==
    last.op = "Grid" =>
        /\ Returned <=> (last.args[1] >= 1 /\ last.args[2] >= 1)
        /\ Returned =>
            /\ cur = last.result
            /\ cur.kind = "Grid"
            /\ size(cur) = <<last.args[1], last.args[2]>>
        /\ ~Returned =>
            /\ last.result.type = "InvalidGridError"
            /\ cur = None

\* C9 witness: zero rows are refused
C9_Witness ==
    /\ last.op = "Grid" /\ ~Returned
    /\ last.args[1] = 0 /\ last.args[2] >= 1

\* C10: a tiled grid returned by tile_via or tile_into has, on each axis,
\* tile size t >= 1 and (k - 1) * t < n <= k * t: every tile index holds at
\* least one base-grid cell and every base-grid cell lies in some tile.
C10_Coverage ==
    (last.op \in {"tile_via", "tile_into"} /\ Returned) =>
        LET tg == last.result
            Covers(n, k, t) ==
                /\ t >= 1
                /\ (k - 1) * t < n
                /\ n <= k * t
                /\ \A i \in 0..(k - 1) : \E x \in 0..(n - 1) : x \div t = i
                /\ \A x \in 0..(n - 1) : (x \div t) \in 0..(k - 1)
        IN  /\ Covers(tg.base_grid.rows, tg.rows, tg.tile_rows)
            /\ Covers(tg.base_grid.cols, tg.cols, tg.tile_cols)

\* C10 witness: tiles that overhang the base grid: 3 rows covered by 2 tiles
\* of 2 rows
C10_Witness ==
    /\ last.op \in {"tile_via", "tile_into"} /\ Returned
    /\ last.result.base_grid.rows = 3
    /\ last.result.tile_rows = 2 /\ last.result.rows = 2

====
